---------------------------- MODULE Spec2Model ----------------------------
(***************************************************************************)
(* A model of databroker-elasticsearch:                                    *)
(*   db_es/callback.py             field converters, DOCMAP, DOCFILTER,    *)
(*                                 esdocument and ElasticInsert.start      *)
(*   databroker_elasticsearch/brokersearch.py   BrokerSearch.__call__      *)
(* The Elasticsearch cluster is the shared external state: a set of named  *)
(* indices, each with its mappings and its documents.                      *)
(***************************************************************************)
EXTENDS Integers, Sequences, FiniteSets, TLC

(***************************************************************************)
(* Bounds of the model.                                                    *)
(***************************************************************************)
\* uids of run records are "u1" .. "u<MaxUid>"
MaxUid == 2
\* documents held by the archive index that BrokerSearch may scan
MaxArchive == 2

(***************************************************************************)
(* Python values.  Every value is a record of one shape:                   *)
(*   tag "none"   None                                                     *)
(*   tag "int"    the integer n                                            *)
(*   tag "float"  n seconds and m thousandths (a float rounded to 3 places)*)
(*   tag "bool"   n = 1 for True, 0 for False                              *)
(*   tag "str"    the string s                                             *)
(*   tag "list"   a list of n strings followed by m non-strings            *)
(*   tag "dict"   counts per category: s names the keys ("", "a", "ab"),   *)
(*                n is the value of "a", m the value of "b"                *)
(*   tag "dictf"  as "dict", the values in thousandths (floats)            *)
(*   tag "raise"  not a value: the exception s was raised                  *)
(***************************************************************************)
Val(t, str, a, b) == [tag |-> t, s |-> str, n |-> a, m |-> b]
None == Val("none", "", 0, 0)
IntV(k) == Val("int", "", k, 0)
FloatV(sec, ms) == Val("float", "", sec, ms)
BoolV(b) == Val("bool", "", IF b THEN 1 ELSE 0, 0)
StrV(str) == Val("str", str, 0, 0)
ListV(nstr, nother) == Val("list", "", nstr, nother)
DictV(keys, a, b) == Val("dict", keys, a, b)
DictFV(keys, a, b) == Val("dictf", keys, a, b)
Raise(exc) == Val("raise", exc, 0, 0)

IsRaise(v) == v.tag = "raise"
IsNumber(v) == v.tag \in {"int", "float", "bool"}

\* two-digit and four-digit zero padded decimal numerals
Pad2(k) == IF k < 10 THEN "0" \o ToString(k) ELSE ToString(k)
Pad3(k) == IF k < 10 THEN "00" \o ToString(k)
           ELSE IF k < 100 THEN "0" \o ToString(k) ELSE ToString(k)
Pad4(k) == IF k < 1000 THEN "0" \o Pad3(k) ELSE ToString(k)

\* the largest integer whose decimal numeral int() and float() are asked to parse
MaxNumeral == 2999

\* the decimal numerals int() and float() parse, each with its value: those
\* of 0 .. MaxNumeral, with or without leading zeros up to four digits
Numerals ==
    {<<ToString(k), k>> : k \in 0..MaxNumeral}
        \cup {<<Pad4(k), k>> : k \in 0..MaxNumeral}

\* int("<numeral>"); every other string is malformed
ParseInt(str) ==
    IF \E p \in Numerals : p[1] = str
    THEN IntV((CHOOSE p \in Numerals : p[1] = str)[2])
    ELSE Raise("ValueError")

(***************************************************************************)
(* Field converters (callback.py lines 9-49 and the builtins the tables    *)
(* name).  A converter returns a value, None, or raises.                   *)
(***************************************************************************)
noconversion(x) == x

\* str(x)
PyStr(x) ==
    CASE x.tag = "str" -> x
      [] x.tag = "int" -> StrV(ToString(x.n))
      [] x.tag = "float" -> StrV(ToString(x.n) \o "." \o
                                 (IF x.m % 100 = 0 THEN ToString(x.m \div 100)
                                  ELSE IF x.m % 10 = 0 THEN Pad2(x.m \div 10)
                                  ELSE Pad3(x.m)))
      [] x.tag = "bool" -> StrV(IF x.n = 1 THEN "True" ELSE "False")
      [] x.tag = "none" -> StrV("None")
      [] x.tag = "list" -> StrV("[" \o ToString(x.n) \o " str, "
                                \o ToString(x.m) \o " other]")
      [] OTHER -> StrV("{" \o x.s \o "}")

\* int(x)
PyInt(x) ==
    CASE x.tag = "int" -> x
      [] x.tag = "bool" -> IntV(x.n)
      [] x.tag = "float" -> IntV(x.n)
      [] x.tag = "str" -> ParseInt(x.s)
      [] OTHER -> Raise("TypeError")

\* float(x)
PyFloat(x) ==
    CASE x.tag = "float" -> x
      [] x.tag \in {"int", "bool"} -> FloatV(x.n, 0)
      [] x.tag = "str" -> IF IsRaise(ParseInt(x.s)) THEN Raise("ValueError")
                          ELSE FloatV(ParseInt(x.s).n, 0)
      [] OTHER -> Raise("TypeError")

\* bool(x): truthiness
PyBool(x) ==
    CASE x.tag \in {"int", "bool"} -> BoolV(x.n # 0)
      [] x.tag = "float" -> BoolV(x.n # 0 \/ x.m # 0)
      [] x.tag = "str" -> BoolV(x.s # "")
      [] x.tag = "list" -> BoolV(x.n + x.m > 0)
      [] x.tag \in {"dict", "dictf"} -> BoolV(x.s # "")
      [] OTHER -> BoolV(FALSE)

\* datetime.fromtimestamp(sec): the civil date and time of day of an epoch
\* second, in UTC (the local zone of the process is taken to be UTC).  The
\* date of a day count is found era by era (400 years), then year of era,
\* day of year and month, the year starting in March.
CivilOfMonth(era, yoe, doy, mp, tod) ==
    [year |-> yoe + era * 400 + (IF mp < 10 THEN 0 ELSE 1),
     month |-> IF mp < 10 THEN mp + 3 ELSE mp - 9,
     day |-> doy - (153 * mp + 2) \div 5 + 1,
     hour |-> tod \div 3600,
     minute |-> (tod % 3600) \div 60,
     second |-> tod % 60]

CivilOfDayOfYear(era, yoe, doy, tod) ==
    CivilOfMonth(era, yoe, doy, (5 * doy + 2) \div 153, tod)

CivilOfYearOfEra(era, doe, yoe, tod) ==
    CivilOfDayOfYear(era, yoe,
                     doe - (365 * yoe + yoe \div 4 - yoe \div 100), tod)

CivilOfDayOfEra(era, doe, tod) ==
    CivilOfYearOfEra(era, doe,
        (doe - doe \div 1460 + doe \div 36524 - doe \div 146096) \div 365, tod)

CivilOfShiftedDays(z, tod) ==
    CivilOfDayOfEra(z \div 146097, z % 146097, tod)

CivilFromEpoch(sec) == CivilOfShiftedDays(sec \div 86400 + 719468, sec % 86400)

\* dt.isoformat() with second precision: 19 characters
IsoFormat(c) ==
    Pad4(c.year) \o "-" \o Pad2(c.month) \o "-" \o Pad2(c.day) \o "T"
        \o Pad2(c.hour) \o ":" \o Pad2(c.minute) \o ":" \o Pad2(c.second)

IsoSeconds(sec) == IsoFormat(CivilFromEpoch(sec))

\* toisoformat(epoch): tiso[:-3] keeps the milliseconds when dt.microsecond
\* is not zero, otherwise the date has second precision
toisoformat(epoch) ==
    IF ~IsNumber(epoch) THEN Raise("TypeError")
    ELSE IF epoch.tag = "float" /\ epoch.m # 0
         THEN StrV(IsoSeconds(epoch.n) \o "." \o Pad3(epoch.m))
         ELSE StrV(IsoSeconds(epoch.n))

\* lambda t: int(toisoformat(t)[:4]): the first four characters of the ISO
\* date are the zero padded year
yearof(t) ==
    IF IsRaise(toisoformat(t)) THEN toisoformat(t)
    ELSE ParseInt(Pad4(CivilFromEpoch(t.n).year))

\* normalize_counts(d)
normalize_counts(d) ==
    IF d.tag # "dict" THEN None
    ELSE LET total == IF d.n + d.m = 0 THEN 1 ELSE d.n + d.m
         IN  DictFV(d.s, (d.n * 1000) \div total, (d.m * 1000) \div total)

\* listofstrings(v)
listofstrings(v) ==
    IF v.tag = "list" /\ v.m = 0 THEN v ELSE None

\* the converters by the name the tables give them
Convert(fcnv, x) ==
    CASE fcnv = "noconversion" -> noconversion(x)
      [] fcnv = "str" -> PyStr(x)
      [] fcnv = "int" -> PyInt(x)
      [] fcnv = "float" -> PyFloat(x)
      [] fcnv = "bool" -> PyBool(x)
      [] fcnv = "toisoformat" -> toisoformat(x)
      [] fcnv = "yearof" -> yearof(x)
      [] fcnv = "normalize_counts" -> normalize_counts(x)
      [] OTHER -> listofstrings(x)

(***************************************************************************)
(* DOCMAP (callback.py lines 52-104): per beamline, the ordered table of   *)
(* (mongoname, esname, converter).                                         *)
(***************************************************************************)
DOCMAP ==
    [iss |-> <<
        <<"_id", "issid", "str">>,
        <<"comment", "comment", "noconversion">>,
        <<"cycle", "cycle", "int">>,
        <<"detectors", "detectors", "noconversion">>,
        <<"e0", "e0", "noconversion">>,
        <<"edge", "edge", "noconversion">>,
        <<"element", "element", "noconversion">>,
        <<"experiment", "experiment", "noconversion">>,
        <<"group", "group", "noconversion">>,
        <<"name", "name", "noconversion">>,
        <<"num_points", "num_points", "noconversion">>,
        <<"plan_name", "plan_name", "noconversion">>,
        <<"PI", "pi", "noconversion">>,
        <<"PROPOSAL", "proposal", "noconversion">>,
        <<"SAF", "saf", "noconversion">>,
        <<"scan_id", "scan_id", "noconversion">>,
        <<"time", "time", "noconversion">>,
        <<"trajectory_name", "trajectory_name", "noconversion">>,
        <<"uid", "uid", "noconversion">>,
        <<"year", "year", "int">>,
        <<"time", "date", "toisoformat">> >>,
     xpd |-> <<
        <<"_id", "xpdid", "str">>,
        <<"bt_experimenters", "experimenters", "listofstrings">>,
        <<"bt_piLast", "pi", "noconversion">>,
        <<"bt_safN", "saf", "str">>,
        <<"bt_wavelength", "wavelength", "float">>,
        <<"composition_string", "formula", "noconversion">>,
        <<"dark_frame", "dark_frame", "bool">>,
        <<"group", "group", "noconversion">>,
        <<"lead_experimenter", "pi", "noconversion">>,
        <<"notes", "comment", "noconversion">>,
        <<"num_points", "num_points", "noconversion">>,
        <<"plan_name", "plan_name", "noconversion">>,
        <<"sample_composition", "composition", "normalize_counts">>,
        <<"scan_id", "scan_id", "noconversion">>,
        <<"sp_computed_exposure", "sp_computed_exposure", "float">>,
        <<"sp_num_frames", "sp_num_frames", "int">>,
        <<"sp_plan_name", "sp_plan_name", "noconversion">>,
        <<"sp_time_per_frame", "sp_time_per_frame", "float">>,
        <<"sp_type", "sp_type", "noconversion">>,
        <<"time", "time", "noconversion">>,
        <<"time", "date", "toisoformat">>,
        <<"uid", "uid", "noconversion">>,
        <<"time", "year", "yearof">> >>]

Beamlines == DOMAIN DOCMAP

(***************************************************************************)
(* DOCFILTER (callback.py lines 106-144).  A filter is a conjunction of    *)
(* clauses, a clause a disjunction ($or) of conditions on one field; the   *)
(* filter with no clause is {}.                                            *)
(***************************************************************************)
Exists(f, flag) == [field |-> f, op |-> "$exists", flag |-> flag, allow |-> {}]
In(f, allowed) == [field |-> f, op |-> "$in", flag |-> TRUE, allow |-> allowed]

XpdPIs ==
    {"0713_test", "Abeykoon", "Antonaropoulos", "Assefa", "Banerjee",
     "Benjiamin", "Billinge", "Bordet", "Bozin", "Demo", "Dooryhee",
     "Frandsen", "Ghose", "Hanson", "Milinda and Runze", "Milinda", "Pinero",
     "Robinson", "Sanjit", "Shi", "Test", "Yang", "billinge", "simulation",
     "test", "testPI", "testPI_2", "testTake2", "xpdAcq_realase"}

DOCFILTER ==
    [iss |-> <<>>,
     xpd |-> << <<Exists("bt_piLast", FALSE),
                  In("bt_piLast", {StrV(p) : p \in XpdPIs})>> >>]

\* one condition of a filter on a record
MatchCond(c, doc) ==
    IF c.op = "$exists" THEN (c.field \in DOMAIN doc) = c.flag
    ELSE c.field \in DOMAIN doc /\ doc[c.field] \in c.allow

\* the criteria callable made of a filter: every clause has a condition
\* that holds
Match(filter, doc) ==
    \A i \in 1..Len(filter) :
        \E j \in 1..Len(filter[i]) : MatchCond(filter[i][j], doc)

(***************************************************************************)
(* esdocument (callback.py lines 147-158).  The result also records which  *)
(* converters were invoked, in order, and the exception that ended the     *)
(* call, if any.                                                           *)
(***************************************************************************)
EmptyDoc == [k \in {} |-> None]

\* a slip: a target field already set is kept (setdefault)
SetItem_first(rv, esname, evalue) ==
    [k \in DOMAIN rv \cup {esname} |->
        IF k \in DOMAIN rv THEN rv[k] ELSE evalue]

\* rv[esname] = evalue
SetItem(rv, esname, evalue) ==
    [k \in DOMAIN rv \cup {esname} |-> IF k = esname THEN evalue ELSE rv[k]]

\* a slip: the converter is invoked for a null value too
Evalue_always(fcnv, mvalue) ==
    [value |-> Convert(fcnv, mvalue), invoked |-> TRUE]

\* evalue = fcnv(mvalue) if mvalue is not None else None: the value, and
\* whether the converter was invoked for it
Evalue(fcnv, mvalue) ==
    IF mvalue # None
    THEN [value |-> Convert(fcnv, mvalue), invoked |-> TRUE]
    ELSE [value |-> None, invoked |-> FALSE]

\* the end of one pass of the for loop: the converter raised, returned None
\* (continue) or returned the value to store under esname
esassign(esname, ev, call, acc) ==
    LET called == IF ev.invoked THEN Append(acc.invoked, call)
                  ELSE acc.invoked
    IN  IF IsRaise(ev.value)
        THEN [exc |-> ev.value.s, rv |-> acc.rv, invoked |-> called]
        ELSE IF ev.value = None
        THEN [exc |-> "", rv |-> acc.rv, invoked |-> called]
        ELSE [exc |-> "", rv |-> SetItem(acc.rv, esname, ev.value),
              invoked |-> called]

\* one pass of the for loop: entry i of the table, on the result so far;
\* nothing runs once an exception has left the loop
esloop(docmap, entry, i, acc) ==
    LET mname == docmap[i][1]
        esname == docmap[i][2]
        fcnv == docmap[i][3]
    IN  IF acc.exc # "" \/ mname \notin DOMAIN entry THEN acc
        ELSE esassign(esname, Evalue(fcnv, entry[mname]),
                      <<i, entry[mname]>>, acc)

\* a slip: the assertion on '_id' is gone
esdocument_noassert(docmap, entry) ==
    LET loop[i \in 0..Len(docmap)] ==
            IF i = 0 THEN [exc |-> "", rv |-> EmptyDoc, invoked |-> <<>>]
            ELSE esloop(docmap, entry, i, loop[i - 1])
    IN  loop[Len(docmap)]

esdocument(docmap, entry) ==
    LET loop[i \in 0..Len(docmap)] ==
            IF i = 0 THEN [exc |-> "", rv |-> EmptyDoc, invoked |-> <<>>]
            ELSE esloop(docmap, entry, i, loop[i - 1])
    IN  IF "_id" \notin DOMAIN entry
        THEN [exc |-> "AssertionError", rv |-> EmptyDoc, invoked |-> <<>>]
        ELSE loop[Len(docmap)]

(***************************************************************************)
(* Run records.  A record is a function from the field names it holds to   *)
(* values; a field drawn as Missing is not a key of the record.            *)
(***************************************************************************)
Missing == Val("missing", "", 0, 0)

\* the record of a choice of one palette value per field
Rec(f) == [k \in {k \in DOMAIN f : f[k] # Missing} |-> f[k]]

Uids == {"u" \o ToString(i) : i \in 1..MaxUid}

\* the records the run engine hands to ElasticInsert.start
Records ==
    {Rec(f) : f \in
        [_id : {Missing, IntV(7)},
         uid : {Missing} \cup {StrV(u) : u \in Uids},
         bt_piLast : {Missing, StrV("Billinge"), StrV("Nobody")},
         time : {Missing, FloatV(1609459200, 123), StrV("bad")}]}

\* well-formed records, for the runs that interleave lookups
SearchRecords ==
    {Rec(f) : f \in
        [_id : {IntV(7)},
         uid : {StrV(u) : u \in Uids},
         bt_piLast : {Missing, StrV("Billinge"), StrV("Nobody")},
         time : {Missing, FloatV(1609459200, 123)}]}

\* the records esdocument is applied to on its own
WideRecords ==
    {Rec(f) : f \in
        [_id : {Missing, IntV(7)},
         uid : {Missing, StrV("u1")},
         time : {Missing, None, IntV(0), FloatV(1609459200, 123), StrV("bad")},
         bt_piLast : {Missing, None, StrV("Billinge")},
         lead_experimenter : {Missing, None, StrV("Bozin")},
         bt_experimenters : {Missing, ListV(2, 0), ListV(1, 1)},
         sample_composition : {Missing, DictV("ab", 2, 2), DictV("", 0, 0),
                               StrV("x")},
         cycle : {Missing, StrV("3"), StrV("x")},
         dark_frame : {Missing, IntV(0)}]}

(***************************************************************************)
(* The Elasticsearch cluster: per index name, whether the index exists,    *)
(* its mappings per document type and its documents in scan order.         *)
(***************************************************************************)
IndexNames == Beamlines \cup {"archive"}

NoMappings == [t \in {} |-> [p \in {} |-> ""]]
NoIndex == [exists |-> FALSE, mappings |-> NoMappings, docs |-> <<>>]
EmptyIndex == [exists |-> TRUE, mappings |-> NoMappings, docs |-> <<>>]

\* a document as the index stores it
EsDoc(id, type, source) == [_id |-> id, _type |-> type, _source |-> source]

\* the archive index holds documents a1 .. a<MaxArchive> of earlier runs
ArchiveDocs ==
    [i \in 1..MaxArchive |->
        EsDoc(StrV("a" \o ToString(i)), "xpd",
              [k \in {"uid", "xpdid"} |->
                  IF k = "uid" THEN StrV("a" \o ToString(i))
                  ELSE StrV(ToString(i))])]

\* es.indices.delete(index=esindex, ignore_unavailable=True)
indices_delete(cluster, index) ==
    [ok |-> TRUE, es |-> [cluster EXCEPT ![index] = NoIndex]]

\* es.indices.create(index=esindex): an index of that name must not exist
indices_create(cluster, index) ==
    IF cluster[index].exists THEN [ok |-> FALSE, es |-> cluster]
    ELSE [ok |-> TRUE, es |-> [cluster EXCEPT ![index] = EmptyIndex]]

\* the mapping body of start
mbody ==
    [time |-> [type |-> "date", format |-> "epoch_second"],
     date |-> [type |-> "date", format |-> "strict_date_optional_time"]]

\* es.indices.put_mapping(doc_type=, index=, body=): the index must exist
indices_put_mapping(cluster, doc_type, index, body) ==
    IF ~cluster[index].exists THEN [ok |-> FALSE, es |-> cluster]
    ELSE LET old == cluster[index].mappings
             new == [t \in DOMAIN old \cup {doc_type} |->
                        IF t = doc_type THEN body ELSE old[t]]
         IN  [ok |-> TRUE, es |-> [cluster EXCEPT ![index].mappings = new]]

\* eshelpers.bulk(es, [actions]): index one document, replacing the one of
\* the same type and id; a missing index is created on the way
bulk(cluster, actions) ==
    LET ix == cluster[actions._index]
        kept == SelectSeq(ix.docs, LAMBDA d : ~(d._id = actions._id
                                               /\ d._type = actions._type))
        doc == EsDoc(actions._id, actions._type, actions._source)
    IN  [ok |-> TRUE,
         es |-> [cluster EXCEPT ![actions._index] =
                    [exists |-> TRUE, mappings |-> ix.mappings,
                     docs |-> Append(kept, doc)]]]

(***************************************************************************)
(* State.                                                                  *)
(*   self     the ElasticInsert object: criteria, beamline, es_config,     *)
(*            docmap (the name of its DOCMAP table)                        *)
(*   es       the Elasticsearch cluster                                    *)
(*   pc       where start is: "idle" between invocations, else the index   *)
(*            call it is about to make                                     *)
(*   frame    the locals of the most recent invocation of start            *)
(*   calls    the index calls that invocation has made, in order           *)
(*   outcome  how the most recent invocation went                          *)
(*   last     history: the most recently accepted record and how its sync  *)
(*            ended; whether some accepted record's sync has completed     *)
(*   gen      the lazy sequence BrokerSearch.__call__ returned             *)
(***************************************************************************)
VARIABLES self, es, pc, frame, calls, outcome, last, gen

vars == <<self, es, pc, frame, calls, outcome, last, gen>>

\* criteria=None, or the callable of a filter
NoCriteria == [callable |-> FALSE, filter |-> <<>>]
Query(filter) == [callable |-> TRUE, filter |-> filter]

\* the filters a deployment may configure: those of DOCFILTER and one whose
\* only condition has an empty allow-list
Filters ==
    {DOCFILTER[b] : b \in Beamlines} \cup {<< <<In("bt_piLast", {})>> >>}

\* ElasticInsert.__init__
ElasticInsertInit(es_config, docmap, beamline, criteria) ==
    [criteria |-> criteria, beamline |-> beamline, es_config |-> es_config,
     docmap |-> docmap]

NoActions == [_index |-> "", _id |-> None, _type |-> "", _source |-> EmptyDoc]
NoFrame ==
    [doc |-> EmptyDoc, sanitized_docs |-> EmptyDoc, invoked |-> <<>>,
     actions |-> NoActions]
NoGen ==
    [state |-> "none", index |-> "", q |-> "", hits |-> <<>>, pulled |-> 0,
     out |-> <<>>]

InitCommon ==
    /\ \E b \in Beamlines, c \in {NoCriteria} \cup {Query(f) : f \in Filters} :
          self = ElasticInsertInit([index |-> b], b, b, c)
    /\ es = [i \in IndexNames |->
                IF i = "archive"
                THEN [exists |-> TRUE, mappings |-> NoMappings,
                      docs |-> ArchiveDocs]
                ELSE NoIndex]
    /\ calls = <<>>
    /\ outcome = [accepted |-> FALSE, status |-> "none", exc |-> ""]
    /\ last = [any |-> FALSE, rec |-> EmptyDoc, status |-> "none",
               completed |-> FALSE]
    /\ gen = NoGen

Init ==
    /\ InitCommon
    /\ pc = "idle"
    /\ frame = NoFrame

(***************************************************************************)
(* ElasticInsert.start (callback.py lines 169-189).                        *)
(***************************************************************************)
\* a slip: the answer of the criteria is not looked at
Accepts_any(obj, doc) == obj.criteria.callable

\* self.criteria and self.criteria(doc)
Accepts(obj, doc) ==
    obj.criteria.callable /\ Match(obj.criteria.filter, doc)

\* a slip: the document is stored under the record's '_id'
Actions_id(obj, doc, sanitized_docs) ==
    [_index |-> obj.es_config.index, _id |-> doc["_id"],
     _type |-> obj.beamline, _source |-> sanitized_docs]

\* the actions dict of start
Actions(obj, doc, sanitized_docs) ==
    [_index |-> obj.es_config.index, _id |-> doc["uid"],
     _type |-> obj.beamline, _source |-> sanitized_docs]

\* start after the filter accepted doc: t is what esdocument returned
startAccepted(doc, t) ==
    IF t.exc # "" \/ "uid" \notin DOMAIN doc
    THEN /\ pc' = "idle"
         /\ frame' = [NoFrame EXCEPT !.doc = doc, !.invoked = t.invoked]
         /\ outcome' = [accepted |-> TRUE, status |-> "raised",
                        exc |-> IF t.exc # "" THEN t.exc ELSE "KeyError"]
         /\ last' = [last EXCEPT !.any = TRUE, !.rec = doc,
                                 !.status = "raised"]
    ELSE /\ pc' = "delete"
         /\ frame' = [doc |-> doc, sanitized_docs |-> t.rv,
                      invoked |-> t.invoked,
                      actions |-> Actions(self, doc, t.rv)]
         /\ outcome' = [accepted |-> TRUE, status |-> "running", exc |-> ""]
         /\ last' = [last EXCEPT !.any = TRUE, !.rec = doc,
                                 !.status = "running"]

\* start up to its first index call: the filter, esdocument, the actions
start(doc) ==
    /\ pc = "idle"
    /\ calls' = <<>>
    /\ UNCHANGED <<self, es, gen>>
    /\ IF ~Accepts(self, doc)
       THEN /\ pc' = "idle"
            /\ frame' = [NoFrame EXCEPT !.doc = doc]
            /\ outcome' = [accepted |-> FALSE, status |-> "returned", exc |-> ""]
            /\ last' = last
       ELSE startAccepted(doc, esdocument(DOCMAP[self.docmap], doc))

\* the index call start is about to make, applied to the cluster
IndexCall(at) ==
    CASE at = "delete" -> indices_delete(es, self.es_config.index)
      [] at = "create" -> indices_create(es, self.es_config.index)
      [] at = "put_mapping" ->
            indices_put_mapping(es, self.beamline, self.es_config.index, mbody)
      [] OTHER -> bulk(es, frame.actions)

\* a slip: the mapping is never put
After_nomapping(at) ==
    CASE at = "delete" -> "create"
      [] at = "create" -> "bulk"
      [] OTHER -> "idle"

\* the statement after an index call of start; "idle" after the last one
After(at) ==
    CASE at = "delete" -> "create"
      [] at = "create" -> "put_mapping"
      [] at = "put_mapping" -> "bulk"
      [] OTHER -> "idle"

\* an index call of start succeeds and start goes on, or returns
IndexStep ==
    /\ pc \in {"delete", "create", "put_mapping", "bulk"}
    /\ IndexCall(pc).ok
    /\ es' = IndexCall(pc).es
    /\ calls' = Append(calls, pc)
    /\ pc' = After(pc)
    /\ IF After(pc) = "idle"
       THEN /\ outcome' = [outcome EXCEPT !.status = "returned"]
            /\ last' = [last EXCEPT !.status = "returned", !.completed = TRUE]
       ELSE UNCHANGED <<outcome, last>>
    /\ UNCHANGED <<self, frame, gen>>

\* a slip: a failed call is cleaned up after, the index dropped
IndexFail_rollback ==
    /\ pc \in {"delete", "create", "put_mapping", "bulk"}
    /\ calls' = Append(calls, pc)
    /\ pc' = "idle"
    /\ es' = [es EXCEPT ![self.es_config.index] = NoIndex]
    /\ outcome' = [outcome EXCEPT !.status = "raised", !.exc = "TransportError"]
    /\ last' = [last EXCEPT !.status = "raised"]
    /\ UNCHANGED <<self, frame, gen>>

\* an index call of start raises (the cluster rejects it or cannot be
\* reached): the exception leaves start, nothing is caught
IndexFail ==
    /\ pc \in {"delete", "create", "put_mapping", "bulk"}
    /\ calls' = Append(calls, pc)
    /\ pc' = "idle"
    /\ outcome' = [outcome EXCEPT !.status = "raised", !.exc = "TransportError"]
    /\ last' = [last EXCEPT !.status = "raised"]
    /\ UNCHANGED <<self, es, frame, gen>>

Next ==
    \/ \E doc \in Records : start(doc)
    \/ IndexStep
    \/ IndexFail

Spec == Init /\ [][Next]_vars

(***************************************************************************)
(* BrokerSearch.__call__ (brokersearch.py lines 28-50).  The call builds   *)
(* two nested generators and hands them to Results without running them:   *)
(* the scan is issued, and each hit is pulled, only as the caller iterates.*)
(***************************************************************************)
\* the Lucene query strings of the model: everything, or one uid
Queries == {"*", "uid:u1", "uid:a1"}

\* whether a stored document matches query string q
Matches(q, d) ==
    \/ q = "*"
    \/ /\ "uid" \in DOMAIN d._source
       /\ d._source["uid"].tag = "str"
       /\ q = "uid:" \o d._source["uid"].s

\* a hit of scan(es, q=q, index=index, _source=['uid']): the document's id
\* and, of its source, the uid field alone
Hit(d) ==
    [_id |-> d._id,
     _source |-> [k \in DOMAIN d._source \cap {"uid"} |-> d._source[k]]]

\* the hits the scan of an index returns, in the index's scan order
scan(cluster, q, index) ==
    LET matching == SelectSeq(cluster[index].docs, LAMBDA d : Matches(q, d))
    IN  [i \in 1..Len(matching) |-> Hit(matching[i])]

\* a slip: the pair is built the other way round
gstartstop_swapped(e) == <<None, e._source["uid"]>>

\* (e['_source']['uid'], None)
gstartstop(e) == <<e._source["uid"], None>>

\* a slip: the pairs are built in a list, the scan run by the call itself
BrokerSearchCall_eager(esindex, q) ==
    /\ gen.state \in {"none", "done", "raised"}
    /\ es[esindex].exists
    /\ gen' = [state |-> "created", index |-> esindex, q |-> q,
               hits |-> scan(es, q, esindex),
               pulled |-> Len(scan(es, q, esindex)),
               out |-> [k \in 1..Len(scan(es, q, esindex)) |->
                           gstartstop(scan(es, q, esindex)[k])]]
    /\ UNCHANGED <<self, es, pc, frame, calls, outcome, last>>

\* rv = Results(gstartstop, self.db, data_key=None): nothing has run yet
BrokerSearchCall(esindex, q) ==
    /\ gen.state \in {"none", "done", "raised"}
    /\ gen' = [state |-> "created", index |-> esindex, q |-> q,
               hits |-> <<>>, pulled |-> 0, out |-> <<>>]
    /\ UNCHANGED <<self, es, pc, frame, calls, outcome, last>>

\* the generator after the caller asks for one more item, the scan's hits
\* being hits: the next hit is pulled and its pair yielded, or the hits are
\* used up
Pull(g, hits) ==
    IF g.pulled >= Len(hits)
    THEN [g EXCEPT !.state = "done", !.hits = hits]
    ELSE IF "uid" \notin DOMAIN hits[g.pulled + 1]._source
    THEN [g EXCEPT !.state = "raised", !.hits = hits, !.pulled = @ + 1]
    ELSE [g EXCEPT !.state = "scanning", !.hits = hits, !.pulled = @ + 1,
                   !.out = Append(@, gstartstop(hits[g.pulled + 1]))]

\* the caller asks the lazy sequence for its next item.  The first request
\* issues the scan, which raises when the index does not exist and
\* otherwise fixes the hits (a scroll reads a snapshot of the index).
NextItem ==
    /\ gen.state \in {"created", "scanning"}
    /\ gen' = IF gen.state = "scanning" THEN Pull(gen, gen.hits)
              ELSE IF ~es[gen.index].exists
                   THEN [gen EXCEPT !.state = "raised"]
                   ELSE Pull(gen, scan(es, gen.q, gen.index))
    /\ UNCHANGED <<self, es, pc, frame, calls, outcome, last>>

NextSearch ==
    \/ \E doc \in SearchRecords : start(doc)
    \/ IndexStep
    \/ IndexFail
    \/ \E i \in {self.es_config.index, "archive"}, q \in Queries :
          BrokerSearchCall(i, q)
    \/ NextItem

SpecSearch == Init /\ [][NextSearch]_vars

(***************************************************************************)
(* esdocument on its own: applied once to a record of WideRecords with the *)
(* table of the deployment.                                                *)
(***************************************************************************)
InitDoc ==
    /\ InitCommon
    /\ pc = "esdocument"
    /\ \E doc \in WideRecords : frame = [NoFrame EXCEPT !.doc = doc]

\* the call esdocument(self.docmap, doc), t being what it returns
Returned(t) ==
    /\ frame' = [frame EXCEPT !.sanitized_docs = t.rv, !.invoked = t.invoked]
    /\ outcome' = [accepted |-> TRUE,
                   status |-> IF t.exc = "" THEN "returned" ELSE "raised",
                   exc |-> t.exc]

Transform ==
    /\ pc = "esdocument"
    /\ pc' = "idle"
    /\ Returned(esdocument(DOCMAP[self.docmap], frame.doc))
    /\ UNCHANGED <<self, es, calls, last, gen>>

NextDoc == Transform

SpecDoc == InitDoc /\ [][NextDoc]_vars

(***************************************************************************)
(* Vocabulary of the properties.                                           *)
(***************************************************************************)
\* the index the synchronizer rebuilds
Target == es[self.es_config.index]

\* the four index calls of a sync, in order
FourCalls == <<"delete", "create", "put_mapping", "bulk">>

IsPrefix(a, b) == Len(a) <= Len(b) /\ a = SubSeq(b, 1, Len(a))

\* start has been invoked; frame.doc is the record of the latest invocation
Invoked == outcome.status # "none"

\* a filter is configured and it accepts the record of the latest invocation
FilterAccepts ==
    self.criteria.callable /\ Match(self.criteria.filter, frame.doc)

\* the criteria hold no condition: an empty filter, or none configured
NoConditions == ~self.criteria.callable \/ self.criteria.filter = <<>>

\* entry i of a table has its source field in the record
Present(docmap, rec, i) == docmap[i][1] \in DOMAIN rec

\* the converted value of entry i, absent (None) for a null source value
Converted(docmap, rec, i) ==
    IF rec[docmap[i][1]] = None THEN None
    ELSE Convert(docmap[i][3], rec[docmap[i][1]])

\* entry i yields a value for its target field
Produces(docmap, rec, i) ==
    Present(docmap, rec, i) /\ Converted(docmap, rec, i) # None

\* building the Normalized Document of the record fails
TransformFails(docmap, rec) ==
    \/ "_id" \notin DOMAIN rec
    \/ \E i \in 1..Len(docmap) :
          Present(docmap, rec, i) /\ IsRaise(Converted(docmap, rec, i))

\* the Normalized Document of a record: per target field, the value of the
\* last entry that yields one
NormalizedDocument(docmap, rec) ==
    LET yielding == {i \in 1..Len(docmap) : Produces(docmap, rec, i)}
    IN  [k \in {docmap[i][2] : i \in yielding} |->
            Converted(docmap, rec,
                CHOOSE i \in yielding :
                    /\ docmap[i][2] = k
                    /\ \A j \in yielding : docmap[j][2] = k => j <= i)]

\* the target index holds exactly the document of rec: its Normalized
\* Document, stored under its uid and typed by the beamline
HoldsExactly(rec) ==
    /\ "uid" \in DOMAIN rec
    /\ Target.exists
    /\ Target.docs = <<EsDoc(rec["uid"], self.beamline,
                             NormalizedDocument(DOCMAP[self.docmap], rec))>>

\* the output holds value v for target field k (no field for an absent v)
Holds(rv, k, v) == IF v = None THEN k \notin DOMAIN rv ELSE (k \in DOMAIN rv /\ rv[k] = v)

\* entries i < j of the table share their target field, j being the last
\* entry of that target, and both source fields are in the record
SharedTarget(docmap, rec, i, j) ==
    /\ i < j
    /\ docmap[i][2] = docmap[j][2]
    /\ \A k \in (j + 1)..Len(docmap) : docmap[k][2] # docmap[j][2]
    /\ \A k \in 1..(j - 1) : docmap[k][2] = docmap[j][2] => k = i
    /\ Present(docmap, rec, i)
    /\ Present(docmap, rec, j)

C2_NoConditionsAcceptsAll ==
    (pc = "idle" /\ Invoked /\ NoConditions /\ outcome.status = "returned")
        => calls = FourCalls

(***************************************************************************)
(* C3.  For a record the filter rejects, start ends at once with no index  *)
(* call, and the step leaves the cluster (documents and mappings of every  *)
(* index) as it was.                                                       *)
(***************************************************************************)
C3_RejectedNoCalls ==
    /\ [](Invoked /\ ~FilterAccepts =>
            pc = "idle" /\ calls = <<>> /\ outcome.status = "returned")
    /\ [][(pc = "idle" /\ Invoked' /\ ~FilterAccepts') =>
            (es' = es /\ pc' = "idle" /\ calls' = <<>>)]_vars

C3_Witness ==
    /\ pc = "idle"
    /\ Invoked
    /\ self.criteria.callable
    /\ ~FilterAccepts
    /\ calls = <<>>
    /\ Target.exists
    /\ Len(Target.docs) = 1

(***************************************************************************)
(* C4.  As claimed: whenever no sync is in progress and some accepted      *)
(* record's sync has completed, the target index holds exactly one         *)
(* document, that of the most recently accepted record.                    *)
(***************************************************************************)
C4_IndexHoldsLatestAccepted ==
    (pc = "idle" /\ last.completed) => HoldsExactly(last.rec)

\* C4, amended: whenever no sync is in progress and the sync of the most
\* recently accepted record has completed (it returned, nothing raised), the
\* target index holds exactly one document: the Normalized Document of that
\* record, stored under its uid and typed by the beamline.
C4_LatestCompletedDocument ==
    (pc = "idle" /\ last.any /\ last.status = "returned")
        => HoldsExactly(last.rec)

C4_Witness ==
    /\ pc = "idle"
    /\ last.status = "returned"
    /\ Invoked
    /\ ~FilterAccepts
    /\ HoldsExactly(last.rec)
    /\ "time" \in DOMAIN last.rec

(***************************************************************************)
(* C5.  Identifier round trip: a document the synchronizer inserted has    *)
(* the record's uid as its storage key and as its uid field, and a lookup  *)
(* whose scan of the target index hits the document of the most recently   *)
(* synchronized record yields exactly the pair (that record's uid, None).  *)
(***************************************************************************)
C5_IdentifierRoundTrip ==
    /\ [](\A k \in 1..Len(Target.docs) :
            /\ "uid" \in DOMAIN Target.docs[k]._source
            /\ Target.docs[k]._source["uid"] = Target.docs[k]._id)
    /\ []((pc = "idle" /\ last.any /\ last.status = "returned") =>
            /\ Len(Target.docs) = 1
            /\ Target.docs[1]._id = last.rec["uid"]
            /\ Target.docs[1]._source["uid"] = last.rec["uid"])
    /\ [][(/\ pc = "idle" /\ last.any /\ last.status = "returned"
           /\ gen.state = "created" /\ gen.index = self.es_config.index
           /\ gen.q \in {"*", "uid:" \o last.rec["uid"].s}
           /\ gen' # gen)
          => (gen'.state = "scanning"
              /\ gen'.out = << <<last.rec["uid"], None>> >>)]_vars

C5_Witness ==
    /\ pc = "idle"
    /\ last.status = "returned"
    /\ gen.state = "done"
    /\ gen.index = self.es_config.index
    /\ gen.q = "uid:u1"
    /\ gen.out = << <<last.rec["uid"], None>> >>
    /\ Target.docs[1]._id = StrV("u1")

(***************************************************************************)
(* C6.  As claimed: when two entries of the table share their target field *)
(* and both source fields are in the record, the output holds the later    *)
(* entry's converted value for that field.                                 *)
(***************************************************************************)
C6_LaterEntryWins ==
    (pc = "idle" /\ outcome.status = "returned") =>
        \A i, j \in 1..Len(DOCMAP[self.docmap]) :
            SharedTarget(DOCMAP[self.docmap], frame.doc, i, j) =>
                Holds(frame.sanitized_docs, DOCMAP[self.docmap][j][2],
                      Converted(DOCMAP[self.docmap], frame.doc, j))

\* C6, amended: the output holds the later entry's converted value whenever
\* that value is not absent, whatever the earlier entry gave; when the
\* later entry's value is absent (a null source value, or a converter that
\* returns the absent marker) the output holds the earlier entry's value.
C6_LaterPresentEntryWins ==
    (pc = "idle" /\ outcome.status = "returned") =>
        \A i, j \in 1..Len(DOCMAP[self.docmap]) :
            SharedTarget(DOCMAP[self.docmap], frame.doc, i, j) =>
                Holds(frame.sanitized_docs, DOCMAP[self.docmap][j][2],
                      IF Converted(DOCMAP[self.docmap], frame.doc, j) # None
                      THEN Converted(DOCMAP[self.docmap], frame.doc, j)
                      ELSE Converted(DOCMAP[self.docmap], frame.doc, i))

C6_Witness ==
    /\ pc = "idle"
    /\ outcome.status = "returned"
    /\ self.docmap = "xpd"
    /\ "bt_piLast" \in DOMAIN frame.doc
    /\ "lead_experimenter" \in DOMAIN frame.doc
    /\ frame.doc["bt_piLast"] = StrV("Billinge")
    /\ frame.doc["lead_experimenter"] = StrV("Bozin")
    /\ frame.sanitized_docs["pi"] = StrV("Bozin")

(***************************************************************************)
(* C7.  The Normalized Document esdocument returns holds a target field    *)
(* exactly when some entry of that target has its source field in the      *)
(* record and a converted value that is not absent; no value of it is the  *)
(* absent marker; and no converter is invoked for a source field that is   *)
(* missing or null.                                                        *)
(***************************************************************************)
C7_OnlyProducedFields ==
    (pc = "idle" /\ Invoked) =>
        /\ outcome.status = "returned" =>
              /\ DOMAIN frame.sanitized_docs =
                    {DOCMAP[self.docmap][i][2] :
                        i \in {i \in 1..Len(DOCMAP[self.docmap]) :
                                 Produces(DOCMAP[self.docmap], frame.doc, i)}}
              /\ \A k \in DOMAIN frame.sanitized_docs :
                    frame.sanitized_docs[k] # None
        /\ \A c \in 1..Len(frame.invoked) :
              /\ Present(DOCMAP[self.docmap], frame.doc, frame.invoked[c][1])
              /\ frame.doc[DOCMAP[self.docmap][frame.invoked[c][1]][1]] # None
              /\ frame.invoked[c][2] # None

C7_Witness ==
    /\ pc = "idle"
    /\ outcome.status = "returned"
    /\ self.docmap = "xpd"
    /\ "bt_experimenters" \in DOMAIN frame.doc
    /\ frame.doc["bt_experimenters"] = ListV(1, 1)
    /\ "experimenters" \notin DOMAIN frame.sanitized_docs
    /\ "time" \in DOMAIN frame.doc
    /\ frame.doc["time"] = None
    /\ "sample_composition" \in DOMAIN frame.doc
    /\ "composition" \in DOMAIN frame.sanitized_docs

(***************************************************************************)
(* C8.  When an index call of a sync raises, the exception leaves start:   *)
(* the failing call is the last call of that invocation (no later step, no *)
(* retry), the step leaves the cluster as the completed steps made it (no  *)
(* rollback), and the target index never holds more than one document.     *)
(***************************************************************************)
C8_IndexFailureIsFatal ==
    /\ [](Len(Target.docs) <= 1)
    /\ []((pc = "idle" /\ outcome.status = "raised" /\ calls # <<>>) =>
            /\ IsPrefix(calls, FourCalls)
            /\ outcome.exc = "TransportError"
            /\ Len(calls) = 2 => ~Target.exists
            /\ Len(calls) = 3 => Target = EmptyIndex
            /\ Len(calls) = 4 =>
                  /\ Target.exists
                  /\ Target.docs = <<>>
                  /\ DOMAIN Target.mappings = {self.beamline})
    /\ [][(pc # "idle" /\ outcome'.status = "raised") =>
            (es' = es /\ pc' = "idle" /\ calls' = Append(calls, pc))]_vars
    /\ [][(pc = "idle" /\ outcome.status = "raised" /\ calls # <<>>
           /\ pc' = "idle")
          => (es' = es /\ calls' \in {calls, <<>>})]_vars

C8_Witness ==
    /\ pc = "idle"
    /\ outcome.status = "raised"
    /\ calls = FourCalls
    /\ Target.exists
    /\ Target.docs = <<>>
    /\ last.completed

C10_TransformFailureNoCalls ==
    /\ []((Invoked /\ FilterAccepts
           /\ TransformFails(DOCMAP[self.docmap], frame.doc)) =>
            /\ pc = "idle"
            /\ calls = <<>>
            /\ outcome.status = "raised"
            /\ outcome.exc \in {"AssertionError", "ValueError", "TypeError"})
    /\ [][(/\ pc = "idle" /\ Invoked' /\ FilterAccepts'
           /\ TransformFails(DOCMAP[self.docmap], frame'.doc))
          => (es' = es /\ pc' = "idle" /\ calls' = <<>>)]_vars

C10_Witness ==
    /\ pc = "idle"
    /\ FilterAccepts
    /\ "_id" \in DOMAIN frame.doc
    /\ outcome.status = "raised"
    /\ outcome.exc = "TypeError"
    /\ calls = <<>>
    /\ Target.exists
    /\ Len(Target.docs) = 1

=============================================================================
